---- MODULE Spec2Model ----
(***************************************************************************)
(* A model of the Vulture scanner.                                         *)
(*                                                                         *)
(*   Spec       run_reddit_scan (src/src/vulture.py): ledger, aggregator,  *)
(*              Discord publication, sheet rows, daily marker.             *)
(*   SpecCache  process_posts with the TTL cache (src/vulture_app).        *)
(*   SpecScore  calculate_confidence_score (src/vulture_app/scoring.py).   *)
(*   SpecEnv    check_environment_variables and the start of vulture.py.   *)
(*   SpecParse  parse_gpt_summary (src/vulture_app/ai_client.py).          *)
(*   SpecOneRun, SpecBands, SpecOneBatch: one call over wider inputs.      *)
(***************************************************************************)
EXTENDS Integers, Sequences, FiniteSets, TLC

(***************************************************************************)
(* Bounds of the model.                                                    *)
(***************************************************************************)
NumPosts == 3      \* posts that exist on Reddit
MaxListing == 2    \* posts one scrape returns
MaxRuns == 2       \* invocations of run_reddit_scan
MaxDay == 2        \* calendar days the clock runs through
MaxBatches == 2    \* calls of process_posts
MaxElapsed == 2    \* hours the clock of the cache runs through
MaxMissing == 3    \* required variables that are unset or empty
MaxLines == 3      \* lines of a text given to parse_gpt_summary

VARIABLES
    \* ---- files and collaborators of run_reddit_scan
    processed_posts_file,  \* PROCESSED_POSTS_FILE: the lines of the ledger
    daily_summary_log,     \* DAILY_SUMMARY_LOG_FILE: the date marker, 0 = no file
    today,                 \* the UTC calendar day
    sheet,                 \* rows appended to the "Vulture Data" worksheet
    discord,               \* plays handed to the forum webhook
    runs,                  \* invocations started so far
    \* ---- locals of each invocation of run_reddit_scan
    pc,
    run_no,
    today_str,
    is_first_run_of_day,
    ledger_at_start,
    processed_ids,
    listed,
    new_posts,
    analyzed_plays,
    newly_processed_ids,
    synthesized,
    analyses,
    final_plays,
    \* ---- calculate_confidence_score: its argument and its result
    post_data,
    ConfidenceScore,
    score_pc,
    last_raise,
    \* ---- process_posts and the TTL cache
    cache_file,        \* CACHE_FILE: missing, corrupt, or a mapping
    clock,             \* the UTC time, in hours
    batches,           \* calls of process_posts so far
    batch_pc,
    posts,             \* the argument of process_posts
    idx,               \* the position of the loop in posts
    cache,             \* the mapping prune_cache returned, as updated since
    seen_titles,
    results,
    sweep,             \* what the last prune_cache read and returned
    last_lookup,       \* the last call of generate_tldr_for_post that returned
    model_calls,       \* the ids this batch sent to the model
    synthesized_at,    \* per id: the hour a batch that returned last
                       \* synthesized it, -1 for none
    \* ---- the start of vulture.py
    env,               \* os.environ: per required variable "unset", "" or "x"
    startup_pc,
    missing_vars,
    raised_message,    \* the names in the message of the ValueError raised
    clients,           \* whether the API clients of lines 58-65 exist
    \* ---- parse_gpt_summary: its argument and its result
    summary_text,      \* the text process_posts hands to parse_gpt_summary
    parsed,            \* the mapping it returns
    parse_pc

scanVars == << processed_posts_file, daily_summary_log, today, sheet, discord, runs,
               pc, run_no, today_str, is_first_run_of_day, ledger_at_start,
               processed_ids, listed, new_posts, analyzed_plays, newly_processed_ids, synthesized,
               analyses, final_plays >>

scoreVars == << post_data, ConfidenceScore, score_pc, last_raise >>

cacheVars == << cache_file, clock, batches, batch_pc, posts, idx, cache, seen_titles,
                results, sweep, last_lookup, model_calls, synthesized_at >>

envVars == << env, startup_pc, missing_vars, raised_message, clients >>

parseVars == << summary_text, parsed, parse_pc >>

vars == << scanVars, scoreVars, cacheVars, envVars, parseVars >>

(***************************************************************************)
(* Helpers.                                                                *)
(***************************************************************************)
Range(s) == { s[i] : i \in 1..Len(s) }

Procs == {1, 2}
Sequential == {1}

PostIds == 1..NumPosts

\* Posts 1 and 2 carry the same title; the others share a second title.
Title(p) == IF p <= 2 THEN "A" ELSE "B"

\* (p.score, p.num_comments) as Reddit reports them at scrape time.
PopPairs == { <<50, 10>>, <<80, 5>>, <<50, 5>> }

(***************************************************************************)
(* What the collaborators hand to run_reddit_scan.                         *)
(***************************************************************************)
\* One submission of reddit.subreddit(sub).new(): its counters, whether it was
\* created more than two days ago, whether its url is an image or a video.
ListedAttr(pops) == [pop : pops, created_old : BOOLEAN, url_media : BOOLEAN]

\* The listing in the order the subreddits return it (here: ascending id).
RECURSIVE Listing(_, _)
Listing(S, attr) ==
    IF S = {} THEN << >>
    ELSE LET p == CHOOSE x \in S : \A y \in S : x <= y
         IN  << [id |-> p, title |-> Title(p),
                 score |-> attr[p].pop[1], num_comments |-> attr[p].pop[2],
                 created_old |-> attr[p].created_old,
                 url_media |-> attr[p].url_media] >>
             \o Listing(S \ {p}, attr)

\* The JSON value under 'confidence_score': a number (in tenths) or any other
\* value, on which float() raises.
ConfVals == { [num |-> TRUE, v |-> -10], [num |-> TRUE, v |-> 0],
              [num |-> TRUE, v |-> 70], [num |-> FALSE, v |-> 0] }
Tickers == { "N/A", "n/a", "MULTI_STOCK", "GME" }

NoAnalysis == [present |-> FALSE, ticker |-> "", confidence_score |-> [num |-> TRUE, v |-> 0]]

\* get_ai_synthesis returns None (the call raised, the JSON did not parse, a
\* required key was missing) or the parsed object.
get_ai_synthesis ==
    { NoAnalysis } \cup
    { [present |-> TRUE, ticker |-> t, confidence_score |-> c] :
        t \in Tickers, c \in ConfVals }

\* The narrow choice of inputs that runs of several invocations or batches use.
SomePops == { <<50, 10>> }
SomeOutcomes ==
    { NoAnalysis,
      [present |-> TRUE, ticker |-> "N/A", confidence_score |-> [num |-> TRUE, v |-> 70]],
      [present |-> TRUE, ticker |-> "GME", confidence_score |-> [num |-> TRUE, v |-> 70]],
      [present |-> TRUE, ticker |-> "GME", confidence_score |-> [num |-> FALSE, v |-> 0]] }

\* An actionable analysis and one that is not.
RaceOutcomes ==
    { [present |-> TRUE, ticker |-> "GME", confidence_score |-> [num |-> TRUE, v |-> 70]],
      [present |-> TRUE, ticker |-> "N/A", confidence_score |-> [num |-> TRUE, v |-> 70]] }

\* Confidence scores on both sides of the band thresholds.
BandOutcomes ==
    { [present |-> TRUE, ticker |-> "GME", confidence_score |-> [num |-> TRUE, v |-> v]] :
        v \in { 1, 39, 40, 79, 80, 100 } }

\* str.upper() on the tickers of the model.
Upper(t) == IF t = "n/a" THEN "N/A" ELSE t

(***************************************************************************)
(* load_processed_ids / save_processed_ids                                 *)
(***************************************************************************)
load_processed_ids(file) == Range(file)

save_processed_ids_skipped(file, ids_to_save) == file

save_processed_ids_once(file, ids_to_save) ==
    file \o SelectSeq(ids_to_save, LAMBDA post_id : post_id \notin Range(file))

save_processed_ids(file, ids_to_save) == file \o ids_to_save

(***************************************************************************)
(* scrape_new_posts                                                        *)
(***************************************************************************)
SkippedLedgerIgnored(p, ids) == p.created_old \/ p.url_media

Skipped(p, ids) == p.id \in ids \/ p.created_old \/ p.url_media

RECURSIVE scrape_new_posts(_, _)
scrape_new_posts(listing, ids) ==
    IF listing = << >> THEN << >>
    ELSE LET p == Head(listing)
             rest == scrape_new_posts(Tail(listing), ids)
         IN  IF Skipped(p, ids) THEN rest
             ELSE << [id |-> p.id, title |-> p.title, score |-> p.score,
                      num_comments |-> p.num_comments] >> \o rest

(***************************************************************************)
(* The aggregator: the filter of line 280, sort_values, drop_duplicates.   *)
(***************************************************************************)
ActionableByScoreOnly(play) == play.confidence_score > 0

Actionable(play) ==
    /\ play.confidence_score > 0
    /\ Upper(play.ticker) \notin { "N/A", "MULTI_STOCK" }

\* by=['score', 'num_comments'], ascending=False
Before(a, b) ==
    \/ a.score > b.score
    \/ a.score = b.score /\ a.num_comments > b.num_comments

RECURSIVE InsertSorted(_, _)
InsertSorted(x, s) ==
    IF s = << >> THEN << x >>
    ELSE IF Before(x, Head(s)) THEN << x >> \o s
    ELSE << Head(s) >> \o InsertSorted(x, Tail(s))

sort_values_skipped(s) == s

\* Rows with equal keys keep their order, as in pandas' lexsort.
RECURSIVE sort_values(_)
sort_values(s) ==
    IF s = << >> THEN << >>
    ELSE InsertSorted(s[Len(s)], sort_values(SubSeq(s, 1, Len(s) - 1)))

\* subset=['title'], keep='first'
RECURSIVE drop_duplicates(_, _)
drop_duplicates(s, seen) ==
    IF s = << >> THEN << >>
    ELSE IF Head(s).title \in seen THEN drop_duplicates(Tail(s), seen)
    ELSE << Head(s) >> \o drop_duplicates(Tail(s), seen \cup { Head(s).title })

Aggregate(plays) == drop_duplicates(sort_values(plays), {})

(***************************************************************************)
(* post_plays_to_discord                                                   *)
(***************************************************************************)
\* Lines 67-73: the environment variable behind each key of WEBHOOKS.
WEBHOOKS ==
    [forum |-> "DISCORD_WEBHOOK_FORUM", news |-> "DISCORD_WEBHOOK_NEWS",
     tag_id_low |-> "DISCORD_TAG_ID_LOW", tag_id_medium |-> "DISCORD_TAG_ID_MEDIUM",
     tag_id_high |-> "DISCORD_TAG_ID_HIGH"]

Band_exclusive(score) ==
    IF score > 80 THEN "tag_id_high"
    ELSE IF score > 40 THEN "tag_id_medium"
    ELSE "tag_id_low"

Band(score) ==
    IF score >= 80 THEN "tag_id_high"
    ELSE IF score >= 40 THEN "tag_id_medium"
    ELSE "tag_id_low"

RECURSIVE post_plays_to_discord(_, _)
post_plays_to_discord(plays, run) ==
    IF plays = << >> THEN << >>
    ELSE << [id |-> Head(plays).id, ticker |-> Head(plays).ticker,
             score |-> Head(plays).confidence_score,
             applied_tag |-> Band(Head(plays).confidence_score),
             run |-> run] >>
         \o post_plays_to_discord(Tail(plays), run)

(***************************************************************************)
(* The rows of lines 293-300: nine columns, in this order.  run is the     *)
(* invocation that wrote the row (not a column).                           *)
(***************************************************************************)
RowOf(play) ==
    << play.id, play.ticker, "briefing", "the_play", play.confidence_score,
       "url", "subreddit", "created_utc", "processed_at" >>

RECURSIVE rows_to_save(_, _)
rows_to_save(plays, run) ==
    IF plays = << >> THEN << >>
    ELSE << [row |-> RowOf(Head(plays)), run |-> run] >>
         \o rows_to_save(Tail(plays), run)

(***************************************************************************)
(* run_reddit_scan                                                         *)
(***************************************************************************)
Ended(self) == pc[self] \in { "done", "returned", "aborted" }

\* Lines 263-274: the marker, the ledger, the scrape.
Start(self, limit, pops) ==
    /\ pc[self] = "idle"
    /\ runs < limit
    /\ \E S \in SUBSET PostIds :
         /\ Cardinality(S) <= MaxListing
         /\ \E attr \in [S -> ListedAttr(pops)] :
              LET ids == load_processed_ids(processed_posts_file)
                  scraped == scrape_new_posts(Listing(S, attr), ids)
              IN  /\ listed' = [listed EXCEPT ![self] = S]
                  /\ ledger_at_start' =
                        [ledger_at_start EXCEPT ![self] = processed_posts_file]
                  /\ processed_ids' = [processed_ids EXCEPT ![self] = ids]
                  /\ new_posts' = [new_posts EXCEPT ![self] = scraped]
                  /\ pc' = [pc EXCEPT ![self] =
                              IF scraped = << >> THEN "returned" ELSE "analyze"]
    /\ runs' = runs + 1
    /\ run_no' = [run_no EXCEPT ![self] = runs + 1]
    /\ today_str' = [today_str EXCEPT ![self] = today]
    /\ is_first_run_of_day' =
          [is_first_run_of_day EXCEPT ![self] = (daily_summary_log # today)]
    /\ UNCHANGED << processed_posts_file, daily_summary_log, today, sheet, discord,
                    analyzed_plays, newly_processed_ids, synthesized, analyses,
                    final_plays >>

\* Lines 275-282: one iteration of the loop over new_posts.
AnalyzePost(self, outcomes) ==
    /\ pc[self] = "analyze"
    /\ LET post == new_posts[self][Len(newly_processed_ids[self]) + 1]
       IN  \E analysis \in outcomes :
             LET full_play_data ==
                     [id |-> post.id, title |-> post.title, score |-> post.score,
                      num_comments |-> post.num_comments,
                      ticker |-> analysis.ticker,
                      confidence_score |-> analysis.confidence_score.v]
                 raises == analysis.present /\ ~analysis.confidence_score.num
                 last == Len(newly_processed_ids[self]) + 1 = Len(new_posts[self])
             IN  /\ synthesized' = [synthesized EXCEPT ![self] = Append(@, post.id)]
                 /\ analyses' = [analyses EXCEPT ![self] = Append(@, analysis)]
                 /\ IF raises
                    THEN /\ pc' = [pc EXCEPT ![self] = "aborted"]
                         /\ UNCHANGED << analyzed_plays, newly_processed_ids >>
                    ELSE /\ analyzed_plays' =
                              [analyzed_plays EXCEPT ![self] =
                                 IF analysis.present /\ Actionable(full_play_data)
                                 THEN Append(@, full_play_data) ELSE @]
                         /\ newly_processed_ids' =
                              [newly_processed_ids EXCEPT ![self] = Append(@, post.id)]
                         /\ pc' = [pc EXCEPT ![self] =
                                     IF last THEN "aggregate" ELSE "analyze"]
    /\ UNCHANGED << processed_posts_file, daily_summary_log, today, sheet, discord,
                    runs, run_no, today_str, is_first_run_of_day, ledger_at_start,
                    processed_ids, listed, new_posts, final_plays >>

\* Lines 284-318: aggregate, publish, persist, append to the ledger, and on the
\* first run of the day the daily summary and the marker.
Finish(self) ==
    /\ pc[self] = "aggregate"
    /\ LET plays == Aggregate(analyzed_plays[self])
       IN  /\ final_plays' = [final_plays EXCEPT ![self] = plays]
           /\ discord' = discord \o post_plays_to_discord(plays, run_no[self])
           /\ \E written \in BOOLEAN :
                sheet' = IF written
                         THEN sheet \o rows_to_save(plays, run_no[self])
                         ELSE sheet
    /\ processed_posts_file' =
          save_processed_ids(processed_posts_file, newly_processed_ids[self])
    /\ IF is_first_run_of_day[self]
       THEN \E daily_raises \in BOOLEAN :
              IF daily_raises
              THEN /\ pc' = [pc EXCEPT ![self] = "aborted"]
                   /\ UNCHANGED daily_summary_log
              ELSE /\ pc' = [pc EXCEPT ![self] = "done"]
                   /\ daily_summary_log' = today_str[self]
       ELSE /\ pc' = [pc EXCEPT ![self] = "done"]
            /\ UNCHANGED daily_summary_log
    /\ UNCHANGED << today, runs, run_no, today_str, is_first_run_of_day,
                    ledger_at_start, processed_ids, listed, new_posts, analyzed_plays,
                    newly_processed_ids, synthesized, analyses >>

\* Lines 469-480: the process of this invocation ends, and its locals with it.
Exit(self) ==
    /\ Ended(self)
    /\ pc' = [pc EXCEPT ![self] = "idle"]
    /\ run_no' = [run_no EXCEPT ![self] = 0]
    /\ today_str' = [today_str EXCEPT ![self] = 0]
    /\ is_first_run_of_day' = [is_first_run_of_day EXCEPT ![self] = FALSE]
    /\ ledger_at_start' = [ledger_at_start EXCEPT ![self] = << >>]
    /\ processed_ids' = [processed_ids EXCEPT ![self] = {}]
    /\ listed' = [listed EXCEPT ![self] = {}]
    /\ new_posts' = [new_posts EXCEPT ![self] = << >>]
    /\ analyzed_plays' = [analyzed_plays EXCEPT ![self] = << >>]
    /\ newly_processed_ids' = [newly_processed_ids EXCEPT ![self] = << >>]
    /\ synthesized' = [synthesized EXCEPT ![self] = << >>]
    /\ analyses' = [analyses EXCEPT ![self] = << >>]
    /\ final_plays' = [final_plays EXCEPT ![self] = << >>]
    /\ UNCHANGED << processed_posts_file, daily_summary_log, today, sheet, discord,
                    runs >>

\* Midnight UTC passes.
Tick ==
    /\ today < MaxDay
    /\ today' = today + 1
    /\ UNCHANGED << processed_posts_file, daily_summary_log, sheet, discord, runs,
                    pc, run_no, today_str, is_first_run_of_day, ledger_at_start,
                    processed_ids, listed, new_posts, analyzed_plays,
                    newly_processed_ids, synthesized, analyses, final_plays >>

(***************************************************************************)
(* calculate_confidence_score (scoring.py).  Scores are in hundredths of a  *)
(* point, account_age_years in hundredths of a year.  The inputs of the     *)
(* model are multiples of 0.25, which binary floating point holds exactly,  *)
(* so that Python's round(x, 1) is round-half-to-even on them.              *)
(***************************************************************************)
Min(a, b) == IF a <= b THEN a ELSE b

\* round(x, 1)
Round1(x) ==
    LET q == x \div 10
        r == x % 10
    IN  IF r < 5 THEN 10 * q
        ELSE IF r > 5 THEN 10 * (q + 1)
        ELSE IF q % 2 = 0 THEN 10 * q ELSE 10 * (q + 1)

age_score(age) == IF age >= 300 THEN 100 ELSE IF age >= 100 THEN 50 ELSE 0

karma_score_swapped(karma) == IF karma >= 1000 THEN 50 ELSE IF karma >= 100 THEN 100 ELSE 0

karma_score(karma) == IF karma >= 1000 THEN 100 ELSE IF karma >= 100 THEN 50 ELSE 0

history_score(history) == IF history >= 3 THEN 100 ELSE IF history > 0 THEN 50 ELSE 0

calculate_confidence_score(data) ==
    LET thesis == Min(data.thesis_clarity, 300)
        catalyst == Min(data.catalyst_present, 150)
        engage == Min(data.engagement_quality, 100)
        fmt == Min(data.formatting_quality, 50)
        img == Min(data.image_insight, 50)
        cred == age_score(data.account_age_years) + karma_score(data.total_karma)
                + history_score(data.finance_post_count)
        total == thesis + catalyst + engage + fmt + img + cred
    IN  Round1(Min(total, 1000))

\* The dict process_posts assembles (pipeline.py, lines 89-108): the values
\* each key ranges over.
ScoreGrid ==
    [ thesis_clarity |-> { 0, 100, 200, 300, 400, 500 },
      catalyst_present |-> { 0, 75, 150 },
      formatting_quality |-> { 0, 50 },
      image_insight |-> { 0, 50 },
      engagement_quality |-> { 0, 50, 100 },
      position_bonus |-> { 0, 50 },
      account_age_years |-> { 0, 100, 300 },
      total_karma |-> { 0, 100, 1000 },
      finance_post_count |-> { 0, 1, 3 } ]

ScoreFields == DOMAIN ScoreGrid

ScoreInputs ==
    [ thesis_clarity : ScoreGrid.thesis_clarity,
      catalyst_present : ScoreGrid.catalyst_present,
      formatting_quality : ScoreGrid.formatting_quality,
      image_insight : ScoreGrid.image_insight,
      engagement_quality : ScoreGrid.engagement_quality,
      position_bonus : ScoreGrid.position_bonus,
      account_age_years : ScoreGrid.account_age_years,
      total_karma : ScoreGrid.total_karma,
      finance_post_count : ScoreGrid.finance_post_count ]

ZeroInput == [ f \in ScoreFields |-> 0 ]

NoRaise == [field |-> "", before |-> 0]

\* data["ConfidenceScore"] = calculate_confidence_score(data)
Score ==
    /\ score_pc = "input"
    /\ ConfidenceScore' = calculate_confidence_score(post_data)
    /\ score_pc' = "scored"
    /\ UNCHANGED << post_data, last_raise >>

\* The same post with one input raised, scored again.
RaiseInput ==
    /\ score_pc = "scored"
    /\ \E f \in ScoreFields : \E v \in ScoreGrid[f] :
         /\ v > post_data[f]
         /\ post_data' = [post_data EXCEPT ![f] = v]
         /\ ConfidenceScore' = calculate_confidence_score(post_data')
         /\ last_raise' = [field |-> f, before |-> ConfidenceScore]
    /\ UNCHANGED score_pc

ScoreIdle ==
    /\ post_data = ZeroInput
    /\ ConfidenceScore = 0
    /\ score_pc = "input"
    /\ last_raise = NoRaise

ScoreInit ==
    /\ post_data \in ScoreInputs
    /\ ConfidenceScore = 0
    /\ score_pc = "input"
    /\ last_raise = NoRaise

\* The sub-scores as section 3 of the specification caps them.
ClaimedTotal(data) ==
    Min(data.thesis_clarity, 500) + Min(data.catalyst_present, 150)
    + Min(data.formatting_quality, 50) + Min(data.image_insight, 50)
    + Min(data.engagement_quality, 100) + Min(data.position_bonus, 50)
    + Min(age_score(data.account_age_years) + karma_score(data.total_karma)
          + history_score(data.finance_post_count), 300)

\* C5: the confidence score is round(min(sum of the capped sub-scores, 10.0), 1)
\* with caps thesis 5, catalyst 1.5, formatting 0.5, image 0.5, engagement 1,
\* position bonus 0.5 and credibility 3; with every sub-score at its cap it is
\* exactly 10.0.
C5_ScoreIsCappedSum ==
    score_pc = "scored" =>
        /\ ConfidenceScore = Round1(Min(ClaimedTotal(post_data), 1000))
        /\ (/\ post_data.thesis_clarity = 500
            /\ post_data.catalyst_present = 150
            /\ post_data.formatting_quality = 50
            /\ post_data.image_insight = 50
            /\ post_data.engagement_quality = 100
            /\ post_data.position_bonus = 50
            /\ post_data.account_age_years >= 300
            /\ post_data.total_karma >= 1000
            /\ post_data.finance_post_count >= 3) => ConfidenceScore = 1000

\* C6: the score is in [0.0, 10.0], and raising one sub-score or credibility
\* input with the others fixed never lowers it.
C6_BoundedAndMonotone ==
    score_pc = "scored" =>
        /\ ConfidenceScore >= 0
        /\ ConfidenceScore <= 1000
        /\ last_raise # NoRaise => ConfidenceScore >= last_raise.before

\* Raising the karma from below a threshold to above it raised the score.
C6_Witness ==
    /\ score_pc = "scored"
    /\ last_raise.field = "total_karma"
    /\ ConfidenceScore > last_raise.before

(***************************************************************************)
(* The TTL cache (cache.py).  Time is in hours.  A timestamp string is     *)
(* "aware" (an ISO-8601 string with a UTC offset, as isoformat() of        *)
(* datetime.now(timezone.utc) writes it), "naive" (ISO-8601 without an     *)
(* offset) or "bad" (not ISO-8601).                                        *)
(***************************************************************************)
CACHE_EXPIRY_HOURS == 48

\* datetime.now(timezone.utc).isoformat()
isoformat(t) == [kind |-> "aware", h |-> t]

\* datetime.fromisoformat raises on a string that is not ISO-8601.
fromisoformat_raises(stamp) == stamp.kind = "bad"

\* Subtracting a naive datetime from an aware one raises TypeError, outside
\* the try block of is_expired.
is_expired_raises(entry) == entry.timestamp.kind = "naive"

is_expired_inverted(entry, t) ==
    IF fromisoformat_raises(entry.timestamp) THEN TRUE
    ELSE t - entry.timestamp.h < CACHE_EXPIRY_HOURS

is_expired(entry, t) ==
    IF fromisoformat_raises(entry.timestamp) THEN TRUE
    ELSE t - entry.timestamp.h > CACHE_EXPIRY_HOURS

EmptyCache == [pid \in {} |-> 0]

\* json.load raises on a file that does not hold JSON; only FileNotFoundError
\* is caught.
load_cache_raises(file) == file.state = "corrupt"

load_cache(file) == IF file.state = "missing" THEN EmptyCache ELSE file.data

save_cache(mapping) == [state |-> "ok", data |-> mapping]

prune_cache_raises(file) ==
    \/ load_cache_raises(file)
    \/ \E pid \in DOMAIN load_cache(file) : is_expired_raises(load_cache(file)[pid])

\* The mapping prune_cache returns and saves.
prune_cache(file, t) ==
    LET raw == load_cache(file)
        keep == { pid \in DOMAIN raw : ~is_expired(raw[pid], t) }
    IN  [pid \in keep |-> raw[pid]]

(***************************************************************************)
(* The model's replies (ai_client.py).  A text is a sequence of lines; a    *)
(* line is the label it starts with ("" for none) and the words after it.   *)
(***************************************************************************)
Line(label, words) == [label |-> label, words |-> words]
Blank == Line("", << >>)

\* str.strip() on a text: the blank lines at both ends go.
RECURSIVE lstrip(_)
lstrip(text) ==
    IF text # << >> /\ Head(text) = Blank THEN lstrip(Tail(text)) ELSE text

RECURSIVE rstrip(_)
rstrip(text) ==
    IF text # << >> /\ text[Len(text)] = Blank
    THEN rstrip(SubSeq(text, 1, Len(text) - 1)) ELSE text

strip(text) == rstrip(lstrip(text))

Labels == { "tag", "tldr", "ticker", "direction", "positions" }

\* The key of sections a label writes.
SectionOf(label) == IF label = "tldr" THEN "summary" ELSE label

EmptySections ==
    [tag |-> << >>, summary |-> << >>, ticker |-> << >>, direction |-> << >>,
     positions |-> << >>]

\* The loop of parse_gpt_summary from line i on, with curr = "" for None.
RECURSIVE parse_lines(_, _, _, _)
parse_lines(text, i, sections, curr) ==
    IF i > Len(text) THEN sections
    ELSE LET l == text[i]
         IN  IF l = Blank THEN parse_lines(text, i + 1, sections, curr)
             ELSE IF l.label \in Labels
             THEN parse_lines(text, i + 1,
                              [sections EXCEPT ![SectionOf(l.label)] = l.words],
                              SectionOf(l.label))
             ELSE IF curr # ""
             THEN parse_lines(text, i + 1,
                              [sections EXCEPT ![curr] = @ \o l.words], curr)
             ELSE parse_lines(text, i + 1, sections, curr)

parse_gpt_summary_curr_tag(text) == parse_lines(text, 1, EmptySections, "tag")

parse_gpt_summary(text) == parse_lines(text, 1, EmptySections, "")

\* str.lower() and str.strip("<>").upper() on the words of the model.
Lower(w) ==
    CASE w = "DD" -> "dd"
      [] w = "News" -> "news"
      [] w = "Results" -> "results"
      [] w = "Info" -> "info"
      [] w = "N/A" -> "n/a"
      [] w = "None" -> "none"
      [] w = "GME" -> "gme"
      [] w = "<GME>" -> "<gme>"
      [] w = "Up" -> "up"
      [] w = "Down" -> "down"
      [] OTHER -> w

CleanTicker(w) ==
    CASE w = "<GME>" -> "GME"
      [] w = "gme" -> "GME"
      [] w = "None" -> "NONE"
      [] w = "n/a" -> "N/A"
      [] OTHER -> w

RECURSIVE LowerWords(_)
LowerWords(words) ==
    IF words = << >> THEN << >>
    ELSE << Lower(Head(words)) >> \o LowerWords(Tail(words))

RECURSIVE CleanWords(_)
CleanWords(words) ==
    IF words = << >> THEN << >>
    ELSE << CleanTicker(Head(words)) >> \o CleanWords(Tail(words))

\* tag in ("results", "info")
TagFiltered(f) ==
    LowerWords(f.tag) \in { << "results" >>, << "info" >> }

\* not ticker or ticker.lower() in ("nan", "n/a", "none", "not specified")
TickerFiltered(f) ==
    LET ticker == CleanWords(f.ticker)
    IN  \/ ticker = << >>
        \/ LowerWords(ticker)
             \in { << "nan" >>, << "n/a" >>, << "none" >>, << "not", "specified" >> }

\* The replies of the model that runs of several batches use.
Replies ==
    { << Blank, Line("tag", << "DD" >>), Line("tldr", << "buy" >>),
         Line("ticker", << "<GME>" >>), Line("direction", << "Up" >>), Blank >>,
      << Line("tag", << "Results" >>), Line("ticker", << "GME" >>) >>,
      << Line("tag", << "News" >>), Line("ticker", << "N/A" >>) >> }

\* Replies that leave out a label or the words after it.
AllReplies ==
    Replies \cup
    { << >>,
      << Line("ticker", << "GME" >>) >>,
      << Line("tag", << "DD" >>) >>,
      << Line("tag", << >>), Line("ticker", << "GME" >>) >>,
      << Line("tag", << "DD" >>), Line("ticker", << >>) >>,
      << Line("", << "buy" >>), Line("tag", << "DD" >>), Line("ticker", << "gme" >>) >> }

(***************************************************************************)
(* generate_tldr_for_post: the text it returns, the cache as it leaves it,  *)
(* and how often it called the model.  reply is what the model answers.     *)
(***************************************************************************)
Put(mapping, k, v) ==
    [x \in DOMAIN mapping \cup { k } |-> IF x = k THEN v ELSE mapping[x]]

generate_tldr_uncached(pid, mapping, reply, t) ==
    [text |-> strip(reply),
     cache |-> Put(mapping, pid, [summary |-> strip(reply), timestamp |-> isoformat(t)]),
     calls |-> 1]

generate_tldr_for_post(pid, mapping, reply, t) ==
    IF pid \in DOMAIN mapping
    THEN [text |-> mapping[pid].summary, cache |-> mapping, calls |-> 0]
    ELSE [text |-> strip(reply),
          cache |-> Put(mapping, pid,
                        [summary |-> strip(reply), timestamp |-> isoformat(t)]),
          calls |-> 1]

(***************************************************************************)
(* process_posts (pipeline.py)                                             *)
(***************************************************************************)
NoSweep == [done |-> FALSE, read |-> EmptyCache, at |-> 0, returned |-> EmptyCache]
NoLookup ==
    [pid |-> 0, before |-> EmptyCache, after |-> EmptyCache, text |-> << >>,
     reply |-> << >>, calls |-> 0, at |-> 0, synthesized_before |-> -1]

\* The sub-scores and author data steps 4 to 7 compute for a post.
SomeFeatures ==
    { ZeroInput,
      [ZeroInput EXCEPT !.thesis_clarity = 500, !.catalyst_present = 75,
                        !.total_karma = 1000] }

\* What a batch is given about a post: fresh, older than a day, or media.
BatchAttr == { a \in ListedAttr(SomePops) : ~(a.created_old /\ a.url_media) }

\* Lines 26-30: the call, and the pruning sweep that opens it.
BatchStart(limit) ==
    /\ batch_pc = "idle"
    /\ batches < limit
    /\ batches' = batches + 1
    /\ \E S \in SUBSET PostIds :
         /\ Cardinality(S) <= MaxListing
         /\ \E attr \in [S -> BatchAttr] :
              posts' = Listing(S, attr)
    /\ idx' = 1
    /\ seen_titles' = {}
    /\ results' = << >>
    /\ model_calls' = << >>
    /\ IF prune_cache_raises(cache_file)
       THEN /\ batch_pc' = "raised"
            /\ UNCHANGED << cache_file, cache, sweep >>
       ELSE /\ batch_pc' = "loop"
            /\ cache' = prune_cache(cache_file, clock)
            /\ cache_file' = save_cache(prune_cache(cache_file, clock))
            /\ sweep' = [done |-> TRUE, read |-> load_cache(cache_file), at |-> clock,
                         returned |-> prune_cache(cache_file, clock)]
    /\ UNCHANGED << clock, last_lookup, synthesized_at >>

\* Lines 32-127: one iteration of the loop over posts.
BatchPost(replies) ==
    /\ batch_pc = "loop"
    /\ idx <= Len(posts)
    /\ LET p == posts[idx]
       IN  IF p.created_old \/ p.url_media \/ p.title \in seen_titles
           THEN /\ idx' = idx + 1
                /\ UNCHANGED << batch_pc, cache, seen_titles, results, last_lookup,
                                model_calls >>
           ELSE \E reply \in replies, model_raises \in BOOLEAN :
                  LET got == generate_tldr_for_post(p.id, cache, reply, clock)
                      f == parse_gpt_summary(got.text)
                  IN  /\ seen_titles' = seen_titles \cup { p.title }
                      /\ IF p.id \notin DOMAIN cache /\ model_raises
                         THEN \* client.chat.completions.create raised
                              /\ batch_pc' = "raised"
                              /\ model_calls' = Append(model_calls, p.id)
                              /\ UNCHANGED << idx, cache, results, last_lookup >>
                         ELSE /\ cache' = got.cache
                              /\ last_lookup' =
                                    [pid |-> p.id, before |-> cache, after |-> got.cache,
                                     text |-> got.text, reply |-> reply,
                                     calls |-> got.calls, at |-> clock,
                                     synthesized_before |-> synthesized_at[p.id]]
                              /\ model_calls' =
                                    IF got.calls = 1 THEN Append(model_calls, p.id)
                                    ELSE model_calls
                              /\ IF TagFiltered(f) \/ TickerFiltered(f)
                                 THEN /\ idx' = idx + 1
                                      /\ UNCHANGED << batch_pc, results >>
                                 ELSE \E data \in SomeFeatures, fetch_raises \in BOOLEAN :
                                        IF fetch_raises
                                        THEN \* generate_image_caption or
                                             \* fetch_comments_for_post raised
                                             /\ batch_pc' = "raised"
                                             /\ UNCHANGED << idx, results >>
                                        ELSE /\ idx' = idx + 1
                                             /\ results' = Append(results,
                                                   [Tag |-> f.tag, Title |-> p.title,
                                                    Ticker |-> CleanWords(f.ticker),
                                                    ConfidenceScore |->
                                                       calculate_confidence_score(data)])
                                             /\ UNCHANGED batch_pc
    /\ UNCHANGED << cache_file, clock, batches, posts, sweep, synthesized_at >>

\* Line 131: return results.  The cache is not saved.
BatchReturn ==
    /\ batch_pc = "loop"
    /\ idx > Len(posts)
    /\ batch_pc' = "returned"
    /\ synthesized_at' = [pid \in PostIds |->
                             IF pid \in Range(model_calls) THEN clock
                             ELSE synthesized_at[pid]]
    /\ UNCHANGED << cache_file, clock, batches, posts, idx, cache, seen_titles,
                    results, sweep, last_lookup, model_calls >>

\* The call is over: its locals are gone.
BatchExit ==
    /\ batch_pc \in { "returned", "raised" }
    /\ batch_pc' = "idle"
    /\ posts' = << >>
    /\ idx' = 1
    /\ cache' = EmptyCache
    /\ seen_titles' = {}
    /\ results' = << >>
    /\ model_calls' = << >>
    /\ sweep' = NoSweep
    /\ last_lookup' = NoLookup
    /\ UNCHANGED << cache_file, clock, batches, synthesized_at >>

\* An hour passes between two batches.
CacheTick ==
    /\ batch_pc = "idle"
    /\ clock < CACHE_EXPIRY_HOURS + 1 + MaxElapsed
    /\ clock' = clock + 1
    /\ UNCHANGED << cache_file, batches, batch_pc, posts, idx, cache, seen_titles,
                    results, sweep, last_lookup, model_calls, synthesized_at >>

CacheLocalsInit ==
    /\ batches = 0
    /\ batch_pc = "idle"
    /\ posts = << >>
    /\ idx = 1
    /\ cache = EmptyCache
    /\ seen_titles = {}
    /\ results = << >>
    /\ sweep = NoSweep
    /\ last_lookup = NoLookup
    /\ model_calls = << >>
    /\ synthesized_at = [pid \in PostIds |-> -1]

CacheIdle ==
    /\ cache_file = [state |-> "missing", data |-> EmptyCache]
    /\ clock = CACHE_EXPIRY_HOURS + 1
    /\ CacheLocalsInit

\* The entries a cache file holds when the first batch starts: written 49, 48
\* and 47 hours ago, or with a timestamp that does not parse or has no offset.
InitEntries ==
    { [summary |-> << Line("tag", << "DD" >>), Line("ticker", << "GME" >>) >>,
       timestamp |-> stamp] :
        stamp \in { isoformat(0), isoformat(1), isoformat(2),
                    [kind |-> "bad", h |-> 0], [kind |-> "naive", h |-> 2] } }

InitFiles ==
    { [state |-> "missing", data |-> EmptyCache],
      [state |-> "corrupt", data |-> EmptyCache] }
    \cup { [state |-> "ok", data |-> m] :
             m \in UNION { [D -> InitEntries] : D \in SUBSET (1..2) } }

CacheInit ==
    /\ cache_file \in InitFiles
    /\ clock = CACHE_EXPIRY_HOURS + 1
    /\ CacheLocalsInit

(***************************************************************************)
(* The start of vulture.py: check_environment_variables (called at line    *)
(* 55), then the API clients, then the entry point.                        *)
(***************************************************************************)
required_vars ==
    << "CLIENT_ID", "CLIENT_SECRET", "USER_AGENT", "OPENAI_API_KEY",
       "DISCORD_WEBHOOK_FORUM", "DISCORD_WEBHOOK_NEWS", "DISCORD_TAG_ID_LOW",
       "DISCORD_TAG_ID_MEDIUM", "DISCORD_TAG_ID_HIGH",
       "GOOGLE_CREDENTIALS_JSON", "GOOGLE_SHEET_NAME", "GOOGLE_TRAINING_SHEET_NAME",
       "GOOGLE_NEWS_SHEET_NAME", "GOOGLE_CALENDAR_SHEET_NAME", "FINNHUB_API_KEY",
       "ALPHA_VANTAGE_API_KEY" >>

\* not os.getenv(var): the variable is unset, or set to the empty string.
getenv_falsy(e, var) == e[var] \in { "unset", "" }

collect_first_missing(e) ==
    LET all == SelectSeq(required_vars, LAMBDA var : getenv_falsy(e, var))
    IN  IF all = << >> THEN << >> ELSE << Head(all) >>

\* The loop of lines 41-46: missing_vars, in the order of required_vars.
collect_missing(e) == SelectSeq(required_vars, LAMBDA var : getenv_falsy(e, var))

\* Line 55: check_environment_variables().  The message of the ValueError is
\* ', '.join(missing_vars), kept here as the sequence of the names.
CheckEnv ==
    /\ startup_pc = "start"
    /\ missing_vars' = collect_missing(env)
    /\ IF collect_missing(env) # << >>
       THEN /\ startup_pc' = "raised"
            /\ raised_message' = collect_missing(env)
       ELSE /\ startup_pc' = "checked"
            /\ UNCHANGED raised_message
    /\ UNCHANGED << env, clients >>

\* Lines 58-65: praw.Reddit, OpenAI, finnhub.Client, FundamentalData.
ConstructClients ==
    /\ startup_pc = "checked"
    /\ clients' = TRUE
    /\ startup_pc' = "clients"
    /\ UNCHANGED << env, missing_vars, raised_message >>

\* Lines 469-480: the entry point dispatches to a scan.
Main ==
    /\ startup_pc = "clients"
    /\ startup_pc' = "main"
    /\ UNCHANGED << env, missing_vars, raised_message, clients >>

\* The scans run in a process that has started.
EnvIdle ==
    /\ env = [var \in Range(required_vars) |-> "x"]
    /\ startup_pc = "main"
    /\ missing_vars = << >>
    /\ raised_message = << >>
    /\ clients = TRUE

\* Environments in which at most MaxMissing required variables are unset or
\* empty.
EnvInit ==
    /\ \E M \in SUBSET Range(required_vars) :
         /\ Cardinality(M) <= MaxMissing
         /\ \E f \in [M -> { "unset", "" }] :
              env = [var \in Range(required_vars) |->
                        IF var \in M THEN f[var] ELSE "x"]
    /\ startup_pc = "start"
    /\ missing_vars = << >>
    /\ raised_message = << >>
    /\ clients = FALSE

(***************************************************************************)
(* Calls of parse_gpt_summary on the texts of at most MaxLines lines.      *)
(***************************************************************************)
ParseLines ==
    { Blank, Line("", << "more" >>) }
    \cup { Line(label, words) : label \in Labels, words \in { << >>, << "v" >> } }

Texts == UNION { [1..n -> ParseLines] : n \in 0..MaxLines }

Parse ==
    /\ parse_pc = "call"
    /\ parsed' = parse_gpt_summary(summary_text)
    /\ parse_pc' = "returned"
    /\ UNCHANGED summary_text

ParseIdle ==
    /\ summary_text = << >>
    /\ parsed = EmptySections
    /\ parse_pc = "idle"

ParseInit ==
    /\ summary_text \in Texts
    /\ parsed = EmptySections
    /\ parse_pc = "call"

(***************************************************************************)
(* Claims about run_reddit_scan.                                           *)
(***************************************************************************)
DiscordIds(run) == { discord[i].id : i \in { j \in 1..Len(discord) : discord[j].run = run } }
SheetIds(run) == { sheet[i].row[1] : i \in { j \in 1..Len(sheet) : sheet[j].run = run } }

\* C1: an identifier that is in the ledger file when an invocation starts is
\* never passed to get_ai_synthesis by that invocation.
C1_LedgerIdsNotResynthesized ==
    \A self \in Procs :
        Range(synthesized[self]) \cap Range(ledger_at_start[self]) = {}

\* A second invocation finds a listed post in the ledger, skips it, and
\* synthesizes another one.
C1_Witness ==
    \E self \in Procs :
        /\ run_no[self] >= 2
        /\ pc[self] = "done"
        /\ listed[self] \cap Range(ledger_at_start[self]) # {}
        /\ synthesized[self] # << >>

\* C7: an item whose synthesized ticker is "N/A", or whose confidence score is
\* <= 0, is neither published nor persisted, whatever score the model reported.
C7_SentinelNeverInOutput ==
    /\ \A self \in Procs : \A i \in 1..Len(analyses[self]) :
          LET a == analyses[self][i]
          IN  (a.present /\ (a.ticker = "N/A" \/ a.confidence_score.v <= 0))
              => /\ synthesized[self][i] \notin DiscordIds(run_no[self])
                 /\ synthesized[self][i] \notin SheetIds(run_no[self])
                 /\ \A k \in 1..Len(final_plays[self]) :
                       final_plays[self][k].id # synthesized[self][i]
    /\ \A i \in 1..Len(discord) : discord[i].ticker # "N/A" /\ discord[i].score > 0
    /\ \A i \in 1..Len(sheet) : sheet[i].row[2] # "N/A" /\ sheet[i].row[5] > 0

\* The model reported ticker "N/A" with confidence 7.0 for one post, and the
\* invocation published and persisted another.
C7_Witness ==
    \E self \in Procs :
        /\ pc[self] = "done"
        /\ \E i \in 1..Len(analyses[self]) :
              /\ analyses[self][i].present
              /\ analyses[self][i].ticker = "N/A"
              /\ analyses[self][i].confidence_score = [num |-> TRUE, v |-> 70]
        /\ discord # << >>
        /\ sheet # << >>

\* (score, num_comments) of a is at least that of b.
PopularityAtLeast(a, b) ==
    \/ a.score > b.score
    \/ a.score = b.score /\ a.num_comments >= b.num_comments

\* C8: for every title among the actionable items of one invocation the output
\* holds exactly one item with that title, and it has the greatest
\* (score, num_comments) among the actionable items with that title.
C8_OnePerTitleMostPopular ==
    \A self \in Procs :
        pc[self] = "done" =>
            \A i \in 1..Len(analyzed_plays[self]) :
                LET a == analyzed_plays[self][i]
                    kept == { k \in 1..Len(final_plays[self]) :
                                final_plays[self][k].title = a.title }
                IN  /\ Cardinality(kept) = 1
                    /\ \A k \in kept :
                          /\ PopularityAtLeast(final_plays[self][k], a)
                          /\ final_plays[self][k].id \in DiscordIds(run_no[self])
                          /\ \E j \in 1..Len(analyzed_plays[self]) :
                                analyzed_plays[self][j] = final_plays[self][k]

\* Posts 1 (score 50, 10 comments) and 2 (same title, score 80, 5 comments)
\* are both actionable, and post 2 is the one kept.
C8_Witness ==
    \E self \in Procs :
        /\ pc[self] = "done"
        /\ Len(analyzed_plays[self]) = 2
        /\ analyzed_plays[self][1].id = 1
        /\ analyzed_plays[self][1].score = 50
        /\ analyzed_plays[self][1].num_comments = 10
        /\ analyzed_plays[self][2].id = 2
        /\ analyzed_plays[self][2].score = 80
        /\ analyzed_plays[self][2].num_comments = 5
        /\ Len(final_plays[self]) = 1
        /\ final_plays[self][1].id = 2

\* The status column of a main-feed row: the tenth, after processed_at.
RowStatus(row) == IF Len(row) >= 10 THEN row[10] ELSE ""

\* C9: on the first invocation of a new calendar day the confirmation phase
\* does not run and every review record written by that invocation has status
\* Pending Review.
C9_FirstRunWritesPendingReview ==
    \A self \in Procs :
        is_first_run_of_day[self] =>
            \A i \in 1..Len(sheet) :
                sheet[i].run = run_no[self] => RowStatus(sheet[i].row) = "Pending Review"

\* C10: an item is delivered to the publish collaborator only in a confirmation
\* scan of a record stored earlier as Pending Review; the invocation that
\* discovers an item stores it and does not publish it.
C10_NotPublishedByDiscoveringRun ==
    \A self \in Procs :
        \A k \in 1..Len(final_plays[self]) :
            final_plays[self][k].id \notin DiscordIds(run_no[self])

\* C11: every persisted review record has status Pending Review or Confirmed,
\* a record that is Confirmed stays Confirmed, and no record is ever deleted.
C11_StatusConfirmedTerminal ==
    /\ [](\A i \in 1..Len(sheet) :
            RowStatus(sheet[i].row) \in { "Pending Review", "Confirmed" })
    /\ [][ /\ Len(sheet') >= Len(sheet)
           /\ \A i \in 1..Len(sheet) :
                 /\ sheet'[i].row[1] = sheet[i].row[1]
                 /\ RowStatus(sheet[i].row) = "Confirmed"
                      => RowStatus(sheet'[i].row) = "Confirmed" ]_vars

\* C12: an invocation that found itself the first of the day and has returned
\* has left the marker equal to the date it read at its start.
C12_FirstRunLeavesMarker ==
    \A self \in Procs :
        (pc[self] \in { "done", "returned" } /\ is_first_run_of_day[self])
        => daily_summary_log = today_str[self]

\* C13: no failure on one item aborts the run: run_reddit_scan raises only
\* after its loop has gone through every new post, and process_posts raises
\* only in the sweep that precedes its loop.
C13_ItemFailureNeverAborts ==
    /\ \A self \in Procs :
          pc[self] = "aborted" => Len(newly_processed_ids[self]) = Len(new_posts[self])
    /\ batch_pc = "raised" => ~sweep.done

\* C14: when an invocation has ended, every identifier it submitted to
\* synthesis is in the ledger file, and every identifier that was in the
\* ledger file when an invocation started is still in it.
C14_AttemptedInLedger ==
    \A self \in Procs :
        /\ Ended(self) => Range(synthesized[self]) \subseteq Range(processed_posts_file)
        /\ Range(ledger_at_start[self]) \subseteq Range(processed_posts_file)

\* C20: over invocations that run one after the other, no post identifier is
\* handed to post_plays_to_discord by two different invocations.
C20_PublishedInAtMostOneRun ==
    \A i, j \in 1..Len(discord) :
        discord[i].id = discord[j].id => discord[i].run = discord[j].run

\* A second invocation was listed a post the first one had published, and
\* published another one.
C20_Witness ==
    \E self \in Procs :
        /\ run_no[self] = 2
        /\ pc[self] = "done"
        /\ listed[self] \cap DiscordIds(1) # {}
        /\ DiscordIds(2) # {}

\* The identifiers of the new posts of an invocation.
NewIds(self) == { new_posts[self][i].id : i \in 1..Len(new_posts[self]) }

\* How often the ledger file holds an identifier.
LinesOf(post_id) ==
    Cardinality({ i \in 1..Len(processed_posts_file) : processed_posts_file[i] = post_id })

\* C21: when two overlapping invocations both took a post as new, which they
\* do when both loaded the ledger before either appended to it, and both have
\* run to their end, then both submitted it to synthesis, each of them that
\* kept it as a play published it, and the ledger holds its identifier twice.
C21_OverlapDuplicates ==
    \A a, b \in Procs :
        (a # b /\ pc[a] = "done" /\ pc[b] = "done") =>
            \A post_id \in NewIds(a) \cap NewIds(b) :
                /\ post_id \notin Range(ledger_at_start[a]) \cup Range(ledger_at_start[b])
                /\ post_id \in Range(synthesized[a]) \cap Range(synthesized[b])
                /\ \A self \in { a, b } :
                      (\E k \in 1..Len(final_plays[self]) :
                          final_plays[self][k].id = post_id)
                      => post_id \in DiscordIds(run_no[self])
                /\ LinesOf(post_id) = 2

\* Two invocations loaded the same ledger, both published post 1, and the
\* ledger holds it twice.
C21_Witness ==
    /\ pc[1] = "done" /\ pc[2] = "done"
    /\ ledger_at_start[1] = ledger_at_start[2]
    /\ 1 \in Range(synthesized[1]) \cap Range(synthesized[2])
    /\ 1 \in DiscordIds(run_no[1]) \cap DiscordIds(run_no[2])
    /\ run_no[1] # run_no[2]
    /\ LinesOf(1) = 2

ScanInit ==
    /\ processed_posts_file = << >>
    /\ daily_summary_log = 0
    /\ today = 1
    /\ sheet = << >>
    /\ discord = << >>
    /\ runs = 0
    /\ pc = [p \in Procs |-> "idle"]
    /\ run_no = [p \in Procs |-> 0]
    /\ today_str = [p \in Procs |-> 0]
    /\ is_first_run_of_day = [p \in Procs |-> FALSE]
    /\ ledger_at_start = [p \in Procs |-> << >>]
    /\ processed_ids = [p \in Procs |-> {}]
    /\ listed = [p \in Procs |-> {}]
    /\ new_posts = [p \in Procs |-> << >>]
    /\ analyzed_plays = [p \in Procs |-> << >>]
    /\ newly_processed_ids = [p \in Procs |-> << >>]
    /\ synthesized = [p \in Procs |-> << >>]
    /\ analyses = [p \in Procs |-> << >>]
    /\ final_plays = [p \in Procs |-> << >>]

(***************************************************************************)
(* Claims about the TTL cache and process_posts.                           *)
(***************************************************************************)
\* C2: when a batch looks up an identifier that an earlier batch synthesized
\* less than 48 hours before, the lookup is a hit and the model is not
\* called again.
C2_EntryLivesUntilTtl ==
    ( /\ last_lookup.pid # 0
      /\ last_lookup.synthesized_before >= 0
      /\ last_lookup.at - last_lookup.synthesized_before < CACHE_EXPIRY_HOURS )
    => /\ last_lookup.pid \in DOMAIN last_lookup.before
       /\ last_lookup.calls = 0

\* C3: a lookup of an identifier that is in the cache returns the cached
\* text, does not call the model and leaves the cache as it was; a lookup of
\* one that is not calls the model once, stores the stripped reply under the
\* identifier with the current UTC timestamp, leaves the other entries alone
\* and returns what it stored.
C3_LookupHitOrMiss ==
    last_lookup.pid # 0 =>
        LET l == last_lookup
        IN  IF l.pid \in DOMAIN l.before
            THEN /\ l.text = l.before[l.pid].summary
                 /\ l.calls = 0
                 /\ l.after = l.before
            ELSE /\ l.calls = 1
                 /\ DOMAIN l.after = DOMAIN l.before \cup { l.pid }
                 /\ \A k \in DOMAIN l.before : l.after[k] = l.before[k]
                 /\ l.after[l.pid].summary = strip(l.reply)
                 /\ l.after[l.pid].timestamp = [kind |-> "aware", h |-> l.at]
                 /\ l.text = l.after[l.pid].summary

\* A batch that found the second post in the cache and had to ask the model
\* for the third, whose reply came with blank lines around it.
C3_Witness ==
    /\ last_lookup.pid = 3
    /\ last_lookup.calls = 1
    /\ 2 \in DOMAIN last_lookup.before
    /\ last_lookup.reply # strip(last_lookup.reply)
    /\ model_calls = << 3 >>
    /\ Len(results) = 2

\* C4: after a sweep, the returned cache and the saved file are the same
\* mapping, it holds no entry stamped more than 48 hours before the sweep,
\* and it holds every entry the sweep read that was stamped at most 47 hours
\* before it, unchanged.
C4_SweepDropsExpiredKeepsFresh ==
    sweep.done =>
        /\ cache_file.state = "ok"
        /\ cache_file.data = sweep.returned
        /\ \A pid \in DOMAIN sweep.returned :
              LET stamp == sweep.returned[pid].timestamp
              IN  stamp.kind = "aware" /\ sweep.at - stamp.h <= 48
        /\ \A pid \in DOMAIN sweep.read :
              LET stamp == sweep.read[pid].timestamp
              IN  (stamp.kind = "aware" /\ sweep.at - stamp.h <= 47)
                  => /\ pid \in DOMAIN sweep.returned
                     /\ sweep.returned[pid] = sweep.read[pid]

\* A sweep that read one entry 49 hours old and one 47 hours old.
C4_Witness ==
    /\ sweep.done
    /\ \E p, q \in DOMAIN sweep.read :
          /\ sweep.read[p].timestamp.kind = "aware"
          /\ sweep.at - sweep.read[p].timestamp.h = 49
          /\ p \notin DOMAIN sweep.returned
          /\ sweep.read[q].timestamp.kind = "aware"
          /\ sweep.at - sweep.read[q].timestamp.h = 47
          /\ q \in DOMAIN cache_file.data

\* The required variables the environment does not give a value.
Missing == { var \in Range(required_vars) : env[var] \in { "unset", "" } }

\* C17: when a required variable is missing the check raises one error that
\* names every missing variable once and no API client is constructed; when
\* none is missing it raises nothing.
C17_AllMissingNamedBeforeClients ==
    /\ startup_pc = "raised" =>
          /\ Missing # {}
          /\ Range(raised_message) = Missing
          /\ Len(raised_message) = Cardinality(Missing)
          /\ ~clients
    /\ startup_pc \in { "checked", "clients", "main" } =>
          Missing = {} /\ raised_message = << >>
    /\ clients => Missing = {}

\* Three variables are missing, one of them set to the empty string, and the
\* first required variable is not among them.
C17_Witness ==
    /\ startup_pc = "raised"
    /\ Cardinality(Missing) = 3
    /\ "CLIENT_ID" \notin Missing
    /\ \E var \in Missing : env[var] = ""
    /\ \E var \in Missing : env[var] = "unset"

\* C18: every play handed to the webhook carries the tag configured for the
\* band of its score: high from 8.0, medium from 4.0 to below 8.0, low below.
C18_BandByScore ==
    \A i \in 1..Len(discord) :
        LET score == discord[i].score
            tag == WEBHOOKS[discord[i].applied_tag]
        IN  /\ score >= 80 => tag = "DISCORD_TAG_ID_HIGH"
            /\ (40 <= score /\ score < 80) => tag = "DISCORD_TAG_ID_MEDIUM"
            /\ score < 40 => tag = "DISCORD_TAG_ID_LOW"

\* One invocation published a play of score 7.9 and a play of score 8.0.
C18_Witness ==
    /\ \E i \in 1..Len(discord) :
          discord[i].score = 79 /\ discord[i].applied_tag = "tag_id_medium"
    /\ \E i \in 1..Len(discord) :
          discord[i].score = 80 /\ discord[i].applied_tag = "tag_id_high"

\* The words of the lines from i up to the next line that starts with a label.
RECURSIVE ContinuationWords(_, _)
ContinuationWords(t, i) ==
    IF i > Len(t) \/ t[i].label \in Labels THEN << >>
    ELSE t[i].words \o ContinuationWords(t, i + 1)

\* The words after the last line with the label of field k, and of the lines
\* that follow it up to the next label.
ExpectedField(t, k) ==
    LET label == IF k = "summary" THEN "tldr" ELSE k
        at == { i \in 1..Len(t) : t[i].label = label }
    IN  IF at = {} THEN << >>
        ELSE LET j == CHOOSE i \in at : \A m \in at : m <= i
             IN  t[j].words \o ContinuationWords(t, j + 1)

\* C19: parse_gpt_summary returns a mapping with the fields tag, summary,
\* ticker, direction and positions; a field whose label does not occur is
\* empty; a line without a label goes to the field of the last label before
\* it, and nowhere when no label precedes it.
C19_ParseTotalWithContinuation ==
    parse_pc = "returned" =>
        /\ DOMAIN parsed = { "tag", "summary", "ticker", "direction", "positions" }
        /\ \A k \in DOMAIN parsed : parsed[k] = ExpectedField(summary_text, k)

\* A line without a label before the first label, and one after it.
C19_Witness ==
    /\ parse_pc = "returned"
    /\ summary_text = << Line("", << "more" >>), Line("tag", << "v" >>),
                         Line("", << "more" >>) >>
    /\ parsed.tag = << "v", "more" >>
    /\ parsed.ticker = << >>

\* C15: a cache file that cannot be read is never fatal: no call of
\* process_posts ends with an exception while the file is one json.load
\* raises on.
C15_ReadFailureNotFatal ==
    load_cache_raises(cache_file) => batch_pc # "raised"

\* C16: no item of the results of process_posts has an empty tag or an empty
\* ticker.
C16_EmptyTagOrTickerDropped ==
    \A i \in 1..Len(results) :
        results[i].Tag # << >> /\ results[i].Ticker # << >>

Init == ScanInit /\ ScoreIdle /\ CacheIdle /\ EnvIdle /\ ParseIdle

\* Several invocations, one after the other, over a narrow choice of inputs.
Next ==
    \/ \E self \in Sequential : Start(self, MaxRuns, SomePops) /\ UNCHANGED << scoreVars, cacheVars, envVars, parseVars >>
    \/ \E self \in Sequential : AnalyzePost(self, SomeOutcomes) /\ UNCHANGED << scoreVars, cacheVars, envVars, parseVars >>
    \/ \E self \in Sequential : Finish(self) /\ UNCHANGED << scoreVars, cacheVars, envVars, parseVars >>
    \/ \E self \in Sequential : Exit(self) /\ UNCHANGED << scoreVars, cacheVars, envVars, parseVars >>
    \/ Tick /\ UNCHANGED << scoreVars, cacheVars, envVars, parseVars >>

Spec == Init /\ [][Next]_vars

\* One invocation over every input of the model.
NextOneRun ==
    \/ \E self \in Sequential : Start(self, 1, PopPairs) /\ UNCHANGED << scoreVars, cacheVars, envVars, parseVars >>
    \/ \E self \in Sequential : AnalyzePost(self, get_ai_synthesis) /\ UNCHANGED << scoreVars, cacheVars, envVars, parseVars >>
    \/ \E self \in Sequential : Finish(self) /\ UNCHANGED << scoreVars, cacheVars, envVars, parseVars >>
    \/ \E self \in Sequential : Exit(self) /\ UNCHANGED << scoreVars, cacheVars, envVars, parseVars >>

SpecOneRun == Init /\ [][NextOneRun]_vars

\* calculate_confidence_score on every input of the model.
NextScore ==
    \/ Score /\ UNCHANGED << scanVars, cacheVars, envVars, parseVars >>
    \/ RaiseInput /\ UNCHANGED << scanVars, cacheVars, envVars, parseVars >>

InitScore == ScanInit /\ ScoreInit /\ CacheIdle /\ EnvIdle /\ ParseIdle

SpecScore == InitScore /\ [][NextScore]_vars

\* Calls of process_posts, one after the other, on a cache file of the model.
NextCache ==
    \/ BatchStart(MaxBatches) /\ UNCHANGED << scanVars, scoreVars, envVars, parseVars >>
    \/ BatchPost(Replies) /\ UNCHANGED << scanVars, scoreVars, envVars, parseVars >>
    \/ BatchReturn /\ UNCHANGED << scanVars, scoreVars, envVars, parseVars >>
    \/ BatchExit /\ UNCHANGED << scanVars, scoreVars, envVars, parseVars >>
    \/ CacheTick /\ UNCHANGED << scanVars, scoreVars, envVars, parseVars >>

InitCache == ScanInit /\ ScoreIdle /\ CacheInit /\ EnvIdle /\ ParseIdle

SpecCache == InitCache /\ [][NextCache]_vars

\* One call of process_posts over every reply of the model.
NextOneBatch ==
    \/ BatchStart(1) /\ UNCHANGED << scanVars, scoreVars, envVars, parseVars >>
    \/ BatchPost(AllReplies) /\ UNCHANGED << scanVars, scoreVars, envVars, parseVars >>
    \/ BatchReturn /\ UNCHANGED << scanVars, scoreVars, envVars, parseVars >>
    \/ BatchExit /\ UNCHANGED << scanVars, scoreVars, envVars, parseVars >>

SpecOneBatch == InitCache /\ [][NextOneBatch]_vars

\* Two invocations, one per process, that may overlap, with no lock between
\* them.
NextRace ==
    \/ \E self \in Procs : Start(self, MaxRuns, SomePops) /\ UNCHANGED << scoreVars, cacheVars, envVars, parseVars >>
    \/ \E self \in Procs : AnalyzePost(self, RaceOutcomes) /\ UNCHANGED << scoreVars, cacheVars, envVars, parseVars >>
    \/ \E self \in Procs : Finish(self) /\ UNCHANGED << scoreVars, cacheVars, envVars, parseVars >>

SpecRace == Init /\ [][NextRace]_vars

\* One invocation over scores on both sides of the band thresholds.
NextBands ==
    \/ \E self \in Sequential : Start(self, 1, SomePops) /\ UNCHANGED << scoreVars, cacheVars, envVars, parseVars >>
    \/ \E self \in Sequential : AnalyzePost(self, BandOutcomes) /\ UNCHANGED << scoreVars, cacheVars, envVars, parseVars >>
    \/ \E self \in Sequential : Finish(self) /\ UNCHANGED << scoreVars, cacheVars, envVars, parseVars >>
    \/ \E self \in Sequential : Exit(self) /\ UNCHANGED << scoreVars, cacheVars, envVars, parseVars >>

SpecBands == Init /\ [][NextBands]_vars

\* The start of the program in every environment of the model.
NextEnv ==
    \/ CheckEnv /\ UNCHANGED << scanVars, scoreVars, cacheVars, parseVars >>
    \/ ConstructClients /\ UNCHANGED << scanVars, scoreVars, cacheVars, parseVars >>
    \/ Main /\ UNCHANGED << scanVars, scoreVars, cacheVars, parseVars >>

InitEnv == ScanInit /\ ScoreIdle /\ CacheIdle /\ EnvInit /\ ParseIdle

SpecEnv == InitEnv /\ [][NextEnv]_vars

\* parse_gpt_summary on every text of the model.
NextParse == Parse /\ UNCHANGED << scanVars, scoreVars, cacheVars, envVars >>

InitParse == ScanInit /\ ScoreIdle /\ CacheIdle /\ EnvIdle /\ ParseInit

SpecParse == InitParse /\ [][NextParse]_vars

====
